---- MODULE Spec2Model ----
(***************************************************************************)
(* Realization of a flat stream of directives into a tree of RealAccount   *)
(* nodes (beancount/core/realization.py).                                  *)
(*                                                                         *)
(* A string is the sequence of its symbols; the separator is one symbol    *)
(* and a run of other characters is written as one symbol ("Assets").      *)
(* A Python object is a value together with its identity: a directive is   *)
(* identified by its position in the input stream, a posting by the        *)
(* position of its transaction and its own position among the legs, and a  *)
(* RealAccount node by its index in the heap.                              *)
(***************************************************************************)
EXTENDS Integers, Sequences, FiniteSets, TLC

VARIABLES entries, postings_map, min_accounts, pc, todo, min_todo, heap, real_root,
          calls, last, frame

vars == <<entries, postings_map, min_accounts, pc, todo, min_todo, heap, real_root,
          calls, last, frame>>

(***************************************************************************)
(* Bounds of the model.                                                    *)
(***************************************************************************)
MaxEntries == 2
MaxPostings == 2
MaxCalls == 3

(***************************************************************************)
(* Account names.                                                          *)
(***************************************************************************)
sep == ":"

Assets == <<"Assets">>
AssetsChecking == <<"Assets", ":", "Checking">>
ExpensesFood == <<"Expenses", ":", "Food">>
IncomeSalary == <<"Income", ":", "Salary">>

EndsWith(s, suffix) ==
    /\ Len(suffix) <= Len(s)
    /\ SubSeq(s, Len(s) - Len(suffix) + 1, Len(s)) = suffix

RECURSIVE split(_)
split(s) ==
    IF s = <<>> THEN << <<>> >>
    ELSE LET rest == split(Tail(s))
         IN  IF Head(s) = sep
             THEN << <<>> >> \o rest
             ELSE << <<Head(s)>> \o Head(rest) >> \o Tail(rest)

RECURSIVE join(_)
join(components) ==
    IF Len(components) = 0 THEN <<>>
    ELSE IF Len(components) = 1 THEN components[1]
    ELSE components[1] \o <<sep>> \o join(Tail(components))

(***************************************************************************)
(* Inventory: the quantity held of every lot; a lot held at quantity zero  *)
(* is the same as a lot not held.                                          *)
(***************************************************************************)
Lots == {"USD", "CAD"}

Inventory == [lot \in Lots |-> 0]

add_position(inv, position, allow_negative) ==
    LET sum == inv[position.lot] + position.number
    IN  IF sum < 0 /\ ~allow_negative THEN inv
        ELSE [inv EXCEPT ![position.lot] = sum]

(***************************************************************************)
(* Directives.                                                             *)
(***************************************************************************)
Position(lot, number) == [lot |-> lot, number |-> number]

Posting(account, position) ==
    [kind |-> "Posting", account |-> account, position |-> position]

Transaction(postings) == [kind |-> "Transaction", postings |-> postings]

Directive(kind, account) == [kind |-> kind, account |-> account]

Pad(account, account_pad) ==
    [kind |-> "Pad", account |-> account, account_pad |-> account_pad]

Other(kind) == [kind |-> kind]

AccountKinds == {"Open", "Close", "Balance", "Note", "Document"}
OtherKinds == {"Price", "Event"}

\* The legs the transactions of the model are made of: an account and its
\* sub-account, a negative and a positive quantity, two lots.
Postings ==
    { Posting(Assets, Position("USD", 0 - 100)),
      Posting(AssetsChecking, Position("USD", 100)),
      Posting(AssetsChecking, Position("CAD", 100)) }

\* The sequences of at most n distinct elements of S.
DistinctSeqsUpTo(S, n) ==
    UNION { { ps \in [1..k -> S] : \A i, j \in 1..k : i # j => ps[i] # ps[j] }
            : k \in 0..n }

Entry ==
    {Transaction(ps) : ps \in DistinctSeqsUpTo(Postings, MaxPostings)}
    \cup {Directive(k, AssetsChecking) : k \in AccountKinds}
    \cup {Directive("Open", ExpensesFood), Directive("Balance", Assets)}
    \cup {Pad(AssetsChecking, ExpensesFood), Pad(AssetsChecking, AssetsChecking)}
    \cup {Other(k) : k \in OtherKinds}

\* The scenario stream: two opens and one transaction between the two accounts.
ScenarioEntries ==
    << Directive("Open", AssetsChecking),
       Directive("Open", ExpensesFood),
       Transaction(<< Posting(AssetsChecking, Position("USD", 0 - 100)),
                      Posting(ExpensesFood, Position("USD", 100)) >>) >>

IsPrefix(s, t) == Len(s) <= Len(t) /\ SubSeq(t, 1, Len(s)) = s

\* The input streams the model feeds to realize.
IsInput(s) ==
    \/ Len(s) <= MaxEntries /\ \A k \in 1..Len(s) : s[k] \in Entry
    \/ IsPrefix(s, ScenarioEntries)

MinAccountSets == SUBSET {Assets, IncomeSalary}

(***************************************************************************)
(* Items of a postings list: a reference to a directive (leg = 0) or to    *)
(* leg number `leg` of a transaction, with the value of the object.        *)
(***************************************************************************)
Item(entry, leg, val) == [entry |-> entry, leg |-> leg, val |-> val]

isinstance(obj, kinds) == obj.kind \in kinds

(***************************************************************************)
(* group_by_account                                                        *)
(***************************************************************************)
\* Mutant: the item is inserted at the front of the list.
MapPrepend(map, key, item) ==
    IF key \in DOMAIN map
    THEN [map EXCEPT ![key] = <<item>> \o @]
    ELSE (key :> <<item>>) @@ map

\* postings_map[key].append(item) on a defaultdict(list).
MapAppend(map, key, item) ==
    IF key \in DOMAIN map
    THEN [map EXCEPT ![key] = Append(@, item)]
    ELSE (key :> <<item>>) @@ map

\* Mutant: every posting goes to the account of the first posting.
RECURSIVE AppendPostingsFirstAccount(_, _, _, _)
AppendPostingsFirstAccount(map, entry, idx, leg) ==
    IF leg > Len(entry.postings) THEN map
    ELSE LET posting == entry.postings[leg]
         IN  AppendPostingsFirstAccount(
                 MapAppend(map, entry.postings[1].account, Item(idx, leg, posting)),
                 entry, idx, leg + 1)

\* for posting in entry.postings: postings_map[posting.account].append(posting)
RECURSIVE AppendPostings(_, _, _, _)
AppendPostings(map, entry, idx, leg) ==
    IF leg > Len(entry.postings) THEN map
    ELSE LET posting == entry.postings[leg]
         IN  AppendPostings(MapAppend(map, posting.account, Item(idx, leg, posting)),
                            entry, idx, leg + 1)

\* Mutant: a Pad is inserted in the list of its account only.
GroupEntryPadOnce(map, entry, idx) ==
    IF isinstance(entry, {"Transaction"})
    THEN AppendPostings(map, entry, idx, 1)
    ELSE IF isinstance(entry, {"Open", "Close", "Balance", "Note", "Document", "Pad"})
    THEN MapAppend(map, entry.account, Item(idx, 0, entry))
    ELSE map

\* Mutant: Document is missing from the kinds that are listed.
GroupEntryNoDocument(map, entry, idx) ==
    IF isinstance(entry, {"Transaction"})
    THEN AppendPostings(map, entry, idx, 1)
    ELSE IF isinstance(entry, {"Open", "Close", "Balance", "Note"})
    THEN MapAppend(map, entry.account, Item(idx, 0, entry))
    ELSE IF isinstance(entry, {"Pad"})
    THEN MapAppend(MapAppend(map, entry.account, Item(idx, 0, entry)),
                   entry.account_pad, Item(idx, 0, entry))
    ELSE map

\* Mutant: a directive of any other kind is listed under the empty name.
GroupEntryKeepsOthers(map, entry, idx) ==
    IF isinstance(entry, {"Transaction"})
    THEN AppendPostings(map, entry, idx, 1)
    ELSE IF isinstance(entry, {"Open", "Close", "Balance", "Note", "Document"})
    THEN MapAppend(map, entry.account, Item(idx, 0, entry))
    ELSE IF isinstance(entry, {"Pad"})
    THEN MapAppend(MapAppend(map, entry.account, Item(idx, 0, entry)),
                   entry.account_pad, Item(idx, 0, entry))
    ELSE MapAppend(map, <<>>, Item(idx, 0, entry))

\* One iteration of the loop: `entry` is the idx-th directive of the stream.
GroupEntry(map, entry, idx) ==
    IF isinstance(entry, {"Transaction"})
    THEN AppendPostings(map, entry, idx, 1)
    ELSE IF isinstance(entry, {"Open", "Close", "Balance", "Note", "Document"})
    THEN MapAppend(map, entry.account, Item(idx, 0, entry))
    ELSE IF isinstance(entry, {"Pad"})
    THEN MapAppend(MapAppend(map, entry.account, Item(idx, 0, entry)),
                   entry.account_pad, Item(idx, 0, entry))
    ELSE map

RECURSIVE GroupFrom(_, _, _)
GroupFrom(map, es, idx) ==
    IF idx > Len(es) THEN map
    ELSE GroupFrom(GroupEntry(map, es[idx], idx), es, idx + 1)

group_by_account(es) == GroupFrom(<<>>, es, 1)

(***************************************************************************)
(* RealAccount: a dict of children keyed by name component, with the full  *)
(* account name, the postings list and the balance. The heap is the        *)
(* sequence of the nodes created so far; a node is named by its index.     *)
(* The postings list and the balance are objects: postings_obj and         *)
(* balance_obj name the node whose list or inventory the attribute refers  *)
(* to, Own standing for the object this node alone refers to (the one its  *)
(* constructor made, or the one realize assigned to it).                   *)
(***************************************************************************)
Own == 0

RealAccount(account_name) ==
    [account |-> account_name, children |-> <<>>,
     postings |-> <<>>, balance |-> Inventory,
     postings_obj |-> Own, balance_obj |-> Own]

\* The identity of the list node.postings and of the inventory node.balance.
postings_id(h, node) ==
    IF h[node].postings_obj = Own THEN node ELSE h[node].postings_obj

balance_id(h, node) ==
    IF h[node].balance_obj = Own THEN node ELSE h[node].balance_obj

\* An account name or key that is not a str (an int, say); isinstance(x, str).
NotStr == <<"<int>">>

IsStr(x) == x # NotStr

None == 0

Raised(h, exc) == [heap |-> h, node |-> None, raised |-> exc]

Returned(h, node) == [heap |-> h, node |-> node, raised |-> "none"]

\* Mutant: the key is not checked.
setitem_any_key(h, parent, key, value) ==
    IF value \notin DOMAIN h
    THEN Raised(h, "ValueError")
    ELSE IF ~EndsWith(h[value].account, key)
    THEN Raised(h, "ValueError")
    ELSE Returned([h EXCEPT ![parent].children = (key :> value) @@ @], value)

\* Mutant: the name of the value is not compared with the key.
setitem_any_name(h, parent, key, value) ==
    IF ~IsStr(key) \/ key = <<>>
    THEN Raised(h, "KeyError")
    ELSE IF value \notin DOMAIN h
    THEN Raised(h, "ValueError")
    ELSE Returned([h EXCEPT ![parent].children = (key :> value) @@ @], value)

\* parent[key] = value, where parent and value are nodes of h.
__setitem__(h, parent, key, value) ==
    IF ~IsStr(key) \/ key = <<>>
    THEN Raised(h, "KeyError")
    ELSE IF value \notin DOMAIN h
    THEN Raised(h, "ValueError")
    ELSE IF ~EndsWith(h[value].account, key)
    THEN Raised(h, "ValueError")
    ELSE Returned([h EXCEPT ![parent].children = (key :> value) @@ @], value)

\* dict.get(key, default) on the children of a node.
dict_get(h, node, key, default) ==
    IF key \in DOMAIN h[node].children THEN h[node].children[key] ELSE default

\* The loop of get over components[k..], from node real_account.
RECURSIVE GetWalk(_, _, _, _, _)
GetWalk(h, real_account, components, k, default) ==
    IF k > Len(components) THEN real_account
    ELSE LET real_child == dict_get(h, real_account, components[k], default)
         IN  IF real_child = default THEN default
             ELSE GetWalk(h, real_child, components, k + 1, default)

get(h, real_account, account_name, default) ==
    GetWalk(h, real_account, split(account_name), 1, default)

\* The loop of get_or_create over components[k..], from node real_account;
\* path is components[1..k].
RECURSIVE GetOrCreateWalk(_, _, _, _)
GetOrCreateWalk(h, real_account, components, k) ==
    IF k > Len(components) THEN Returned(h, real_account)
    ELSE LET component == components[k]
             path == SubSeq(components, 1, k)
             real_child == dict_get(h, real_account, component, None)
         IN  IF real_child # None
             THEN GetOrCreateWalk(h, real_child, components, k + 1)
             ELSE LET created == Append(h, RealAccount(join(path)))
                      set == __setitem__(created, real_account, component, Len(created))
                  IN  IF set.raised # "none"
                      THEN Raised(h, set.raised)
                      ELSE GetOrCreateWalk(set.heap, set.node, components, k + 1)

\* Mutant: the existing child is not looked up; a node is created at every step.
RECURSIVE GetOrCreateAlwaysNew(_, _, _, _)
GetOrCreateAlwaysNew(h, real_account, components, k) ==
    IF k > Len(components) THEN Returned(h, real_account)
    ELSE LET created == Append(h, RealAccount(join(SubSeq(components, 1, k))))
             set == __setitem__(created, real_account, components[k], Len(created))
         IN  IF set.raised # "none"
             THEN Raised(h, set.raised)
             ELSE GetOrCreateAlwaysNew(set.heap, set.node, components, k + 1)

get_or_create_always_new(h, real_account, account_name) ==
    GetOrCreateAlwaysNew(h, real_account, split(account_name), 1)

get_or_create(h, real_account, account_name) ==
    GetOrCreateWalk(h, real_account, split(account_name), 1)

contains(h, real_account, account_name) ==
    get(h, real_account, account_name, None) # None

\* Mutant: an empty account name answers the node itself.
get_call_empty_is_self(h, real_account, account_name, default) ==
    IF ~IsStr(account_name) THEN Raised(h, "ValueError")
    ELSE IF account_name = <<>> THEN Returned(h, real_account)
    ELSE Returned(h, get(h, real_account, account_name, default))

\* Mutant: a name with an empty component is refused.
get_call_strict(h, real_account, account_name, default) ==
    IF ~IsStr(account_name) THEN Raised(h, "ValueError")
    ELSE IF \E k \in DOMAIN split(account_name) : split(account_name)[k] = <<>>
    THEN Raised(h, "KeyError")
    ELSE Returned(h, get(h, real_account, account_name, default))

\* Mutant: the missing nodes of the path are created.
get_call_creating(h, real_account, account_name, default) ==
    IF ~IsStr(account_name) THEN Raised(h, "ValueError")
    ELSE get_or_create(h, real_account, account_name)

\* A call of get: the check of the argument, then the walk; the heap is
\* returned as the call leaves it.
get_call(h, real_account, account_name, default) ==
    IF ~IsStr(account_name) THEN Raised(h, "ValueError")
    ELSE Returned(h, get(h, real_account, account_name, default))

\* A call of contains: get with the default None, compared with None.
contains_call(h, real_account, account_name) ==
    LET r == get_call(h, real_account, account_name, None)
    IN  IF r.raised # "none" THEN [r EXCEPT !.node = FALSE]
        ELSE [r EXCEPT !.node = (r.node # None)]

(***************************************************************************)
(* iter_children. sorted(real_account.items()) orders the (key, child)     *)
(* pairs by key, the keys of a dict being distinct; str comparison is by   *)
(* character, and Alphabet lists the symbols of the model in that order.   *)
(***************************************************************************)
Alphabet == <<":", "Assets", "Checking", "Expenses", "Food", "Income", "Salary", "Sub">>

Rank(c) == CHOOSE i \in DOMAIN Alphabet : Alphabet[i] = c

\* s < t for two str.
StrLess(s, t) ==
    \E k \in 0..Len(s) :
        /\ k <= Len(t)
        /\ SubSeq(s, 1, k) = SubSeq(t, 1, k)
        /\ \/ k = Len(s) /\ k < Len(t)
           \/ k < Len(s) /\ k < Len(t) /\ Rank(s[k + 1]) < Rank(t[k + 1])

RECURSIVE sorted(_)
sorted(keys) ==
    IF keys = {} THEN <<>>
    ELSE LET least == CHOOSE x \in keys : \A y \in keys \ {x} : StrLess(x, y)
         IN  <<least>> \o sorted(keys \ {least})

\* The keys of a node in the order the children were created.
RECURSIVE InsertionOrder(_, _, _)
InsertionOrder(h, real_account, keys) ==
    IF keys = {} THEN <<>>
    ELSE LET first == CHOOSE x \in keys : \A y \in keys \ {x} :
                          h[real_account].children[x] < h[real_account].children[y]
         IN  <<first>> \o InsertionOrder(h, real_account, keys \ {first})

RECURSIVE iter_children(_, _, _)
\* The loop over the items from the k-th on, each child iterated in turn.
RECURSIVE IterItems(_, _, _, _, _)
IterItems(h, real_account, items, k, leaf_only) ==
    IF k > Len(items) THEN <<>>
    ELSE iter_children(h, h[real_account].children[items[k]], leaf_only)
         \o IterItems(h, real_account, items, k + 1, leaf_only)

\* Mutant: the items are taken in the order of the dict, not sorted.
iter_children_unsorted(h, real_account, leaf_only) ==
    LET keys == DOMAIN h[real_account].children
        items == InsertionOrder(h, real_account, keys)
    IN  IF leaf_only
        THEN IF Cardinality(keys) = 0 THEN <<real_account>>
             ELSE IterItems(h, real_account, items, 1, leaf_only)
        ELSE <<real_account>> \o IterItems(h, real_account, items, 1, FALSE)

\* Mutant: leaf_only is not passed down to the iteration of the children.
iter_children_leaf_only_dropped(h, real_account, leaf_only) ==
    LET keys == DOMAIN h[real_account].children
        items == sorted(keys)
    IN  IF leaf_only
        THEN IF Cardinality(keys) = 0 THEN <<real_account>>
             ELSE IterItems(h, real_account, items, 1, FALSE)
        ELSE <<real_account>> \o IterItems(h, real_account, items, 1, FALSE)

\* The sequence of the nodes that iter_children yields.
iter_children(h, real_account, leaf_only) ==
    LET keys == DOMAIN h[real_account].children
        items == sorted(keys)
    IN  IF leaf_only
        THEN IF Cardinality(keys) = 0 THEN <<real_account>>
             ELSE IterItems(h, real_account, items, 1, leaf_only)
        ELSE <<real_account>> \o IterItems(h, real_account, items, 1, FALSE)

(***************************************************************************)
(* filter. A predicate is given by the set of the account names of the     *)
(* nodes it is true of. The copies that are not returned are referred to   *)
(* by nothing, and the heap that is returned is without them. The items of *)
(* a node are visited in the order of the dict.                            *)
(***************************************************************************)
Holds(predicate, h, real_account) == h[real_account].account \in predicate

\* real_copy = RealAccount(real_account.account), then the two assignments.
ShallowCopy(h, real_account) ==
    [RealAccount(h[real_account].account) EXCEPT
        !.balance = h[real_account].balance,
        !.balance_obj = balance_id(h, real_account),
        !.postings = h[real_account].postings,
        !.postings_obj = postings_id(h, real_account)]

RECURSIVE filter(_, _, _)
\* The loop of filter over the items from the k-th on; real_copy is the
\* copy under construction.
RECURSIVE FilterItems(_, _, _, _, _, _)
FilterItems(h, real_account, real_copy, items, k, predicate) ==
    IF k > Len(items) THEN Returned(h, real_copy)
    ELSE LET child_name == items[k]
             real_child == h[real_account].children[child_name]
             filtered == filter(h, real_child, predicate)
         IN  IF filtered.raised # "none" THEN filtered
             ELSE IF filtered.node = None
             THEN FilterItems(filtered.heap, real_account, real_copy, items, k + 1,
                              predicate)
             ELSE LET set == __setitem__(filtered.heap, real_copy, child_name,
                                         filtered.node)
                  IN  IF set.raised # "none" THEN set
                      ELSE FilterItems(set.heap, real_account, real_copy, items, k + 1,
                                       predicate)

\* Mutant: a node is kept only when the predicate is true of it.
filter_predicate_only(h, real_account, predicate) ==
    LET created == Append(h, ShallowCopy(h, real_account))
        real_copy == Len(created)
        items == InsertionOrder(h, real_account, DOMAIN h[real_account].children)
        looped == FilterItems(created, real_account, real_copy, items, 1, predicate)
    IN  IF looped.raised # "none" THEN looped
        ELSE IF Holds(predicate, h, real_account)
        THEN looped
        ELSE Returned(h, None)

\* Mutant: the copy gets a list and an inventory of its own.
filter_deep_copy(h, real_account, predicate) ==
    LET created == Append(h, [ShallowCopy(h, real_account) EXCEPT
                                 !.balance_obj = Own, !.postings_obj = Own])
        real_copy == Len(created)
        items == InsertionOrder(h, real_account, DOMAIN h[real_account].children)
        looped == FilterItems(created, real_account, real_copy, items, 1, predicate)
    IN  IF looped.raised # "none" THEN looped
        ELSE IF \/ Cardinality(DOMAIN looped.heap[real_copy].children) > 0
                \/ Holds(predicate, h, real_account)
        THEN looped
        ELSE Returned(h, None)

filter(h, real_account, predicate) ==
    LET created == Append(h, ShallowCopy(h, real_account))
        real_copy == Len(created)
        items == InsertionOrder(h, real_account, DOMAIN h[real_account].children)
        looped == FilterItems(created, real_account, real_copy, items, 1, predicate)
    IN  IF looped.raised # "none" THEN looped
        ELSE IF \/ Cardinality(DOMAIN looped.heap[real_copy].children) > 0
                \/ Holds(predicate, h, real_account)
        THEN looped
        ELSE Returned(h, None)

(***************************************************************************)
(* iterate_with_balance. The directives the items of its input belong to   *)
(* are the objects of Journal, an entry being identified by its position   *)
(* there; the second transaction has the value of the first. An Inventory  *)
(* the generator creates is an object of the store of its frame: the       *)
(* first is the running balance, the others are the changes. A tuple that  *)
(* is yielded holds the two objects; change_then and balance_then record   *)
(* their values, and read the number of items read, at the time of the     *)
(* yield.                                                                  *)
(***************************************************************************)
Dated(directive, date) == [date |-> date] @@ directive

Journal ==
    << Dated(Transaction(<< Posting(AssetsChecking, Position("USD", 0 - 100)),
                            Posting(AssetsChecking, Position("USD", 40)) >>), 1),
       Dated(Transaction(<< Posting(AssetsChecking, Position("USD", 0 - 100)),
                            Posting(AssetsChecking, Position("USD", 40)) >>), 1),
       Dated(Transaction(<< Posting(AssetsChecking, Position("CAD", 100)),
                            Posting(AssetsChecking, Position("USD", 100)) >>), 2),
       Dated(Directive("Open", AssetsChecking), 1),
       Dated(Directive("Balance", AssetsChecking), 2) >>

\* first = lambda pair: pair[0]: the field of a pair that holds its entry.
first == "entry"

\* operator.is_ on two entries.
is_(a, b) == a = b

\* The entries compared with ==.
eq(a, b) == Journal[a] = Journal[b]

\* The comparison an argument cmp names, applied.
Compare(cmp, a, b) == IF cmp = "is_" THEN is_(a, b) ELSE eq(a, b)

\* misc_utils.index_key(sequence, value, key, cmp): the index of the first
\* element whose key compares true with value, or None.
index_key(sequence, value, key, cmp) ==
    LET found == { i \in DOMAIN sequence : Compare(cmp, sequence[i][key], value) }
    IN  IF found = {} THEN None
        ELSE CHOOSE i \in found : \A j \in found : i <= j

\* Mutant: the entry of the posting is looked up by equality.
AddItemByEquality(date_entries, item) ==
    IF isinstance(item.val, {"Posting"})
    THEN LET index == index_key(date_entries, item.entry, first, "eq")
         IN  IF index = None
             THEN Append(date_entries, [entry |-> item.entry, postings |-> <<item>>])
             ELSE [date_entries EXCEPT ![index].postings = Append(@, item)]
    ELSE Append(date_entries, [entry |-> item.entry, postings |-> <<>>])

\* Mutant: the posting is put in front of the postings of its entry.
AddItemInFront(date_entries, item) ==
    IF isinstance(item.val, {"Posting"})
    THEN LET index == index_key(date_entries, item.entry, first, "is_")
         IN  IF index = None
             THEN Append(date_entries, [entry |-> item.entry, postings |-> <<item>>])
             ELSE [date_entries EXCEPT ![index].postings = <<item>> \o @]
    ELSE Append(date_entries, [entry |-> item.entry, postings |-> <<>>])

\* The last part of the loop body: the item is added to date_entries.
AddItem(date_entries, item) ==
    IF isinstance(item.val, {"Posting"})
    THEN LET index == index_key(date_entries, item.entry, first, "is_")
         IN  IF index = None
             THEN Append(date_entries, [entry |-> item.entry, postings |-> <<item>>])
             ELSE [date_entries EXCEPT ![index].postings = Append(@, item)]
    ELSE Append(date_entries, [entry |-> item.entry, postings |-> <<>>])

\* The positions of date_postings from the k-th on added to an inventory.
RECURSIVE AddPositions(_, _, _, _)
AddPositions(inv, date_postings, k, allow_negative) ==
    IF k > Len(date_postings) THEN inv
    ELSE AddPositions(add_position(inv, date_postings[k].val.position, allow_negative),
                      date_postings, k + 1, allow_negative)

\* The tuple (entry, postings, change, balance) as it is yielded.
Yielded(f, date_entry, change, balance) ==
    [entry |-> date_entry.entry, postings |-> date_entry.postings,
     change |-> change, balance |-> balance,
     change_then |-> f.store[change], balance_then |-> f.store[balance],
     read |-> Len(f.postings_or_entries)]

\* Mutant: the positions are added with allow_negative = False.
FlushEntryStrict(f, date_entry) ==
    LET created == [f EXCEPT !.store = Append(@, Inventory)]
        change == Len(created.store)
        added == [created EXCEPT
                     !.store[change] = AddPositions(@, date_entry.postings, 1, FALSE),
                     !.store[1] = AddPositions(@, date_entry.postings, 1, FALSE)]
    IN  [added EXCEPT !.yielded = Append(@, Yielded(added, date_entry, change, 1))]

\* Mutant: the positions are added to the balance and not to the change.
FlushEntryNoChange(f, date_entry) ==
    LET created == [f EXCEPT !.store = Append(@, Inventory)]
        change == Len(created.store)
        added == [created EXCEPT
                     !.store[1] = AddPositions(@, date_entry.postings, 1, TRUE)]
    IN  [added EXCEPT !.yielded = Append(@, Yielded(added, date_entry, change, 1))]

\* The body of the flush loop for one (date_entry, date_postings): a new
\* change, the positions added to it and to the balance, and the yield.
FlushEntry(f, date_entry) ==
    LET created == [f EXCEPT !.store = Append(@, Inventory)]
        change == Len(created.store)
        added == [created EXCEPT
                     !.store[change] = AddPositions(@, date_entry.postings, 1, TRUE),
                     !.store[1] = AddPositions(@, date_entry.postings, 1, TRUE)]
    IN  [added EXCEPT !.yielded = Append(@, Yielded(added, date_entry, change, 1))]

RECURSIVE FlushFrom(_, _)
FlushFrom(f, k) ==
    IF k > Len(f.date_entries) THEN f
    ELSE FlushFrom(FlushEntry(f, f.date_entries[k]), k + 1)

RECURSIVE FlushDownFrom(_, _)
FlushDownFrom(f, k) ==
    IF k < 1 THEN f
    ELSE FlushDownFrom(FlushEntry(f, f.date_entries[k]), k - 1)

\* Mutant: the entries of the date are flushed last first.
FlushReversed(f) ==
    [FlushDownFrom(f, Len(f.date_entries)) EXCEPT !.date_entries = <<>>]

\* The flush of the dated entries, and date_entries.clear().
Flush(f) ==
    [FlushFrom(f, 1) EXCEPT !.date_entries = <<>>]

\* Mutant: the order of the dates is not asserted.
date_order_unchecked(prev_date, date) == TRUE

\* The assertion on a change of date.
date_order(prev_date, date) == prev_date = None \/ date > prev_date

\* The frame of the generator when it starts.
StartFrame ==
    [fn |-> "iterate_with_balance", postings_or_entries |-> <<>>,
     store |-> <<Inventory>>, prev_date |-> None, date_entries |-> <<>>,
     yielded |-> <<>>, raised |-> "none"]

\* One iteration of the loop over postings_or_entries, with the yields of
\* its flush.
IterateItem(f, item) ==
    LET date == Journal[item.entry].date
        read == [f EXCEPT !.postings_or_entries = Append(@, item)]
    IN  IF date # f.prev_date
        THEN IF ~date_order(f.prev_date, date)
             THEN [read EXCEPT !.raised = "AssertionError"]
             ELSE LET flushed == Flush([read EXCEPT !.prev_date = date])
                  IN  [flushed EXCEPT !.date_entries = AddItem(@, item)]
        ELSE [read EXCEPT !.date_entries = AddItem(@, item)]

(***************************************************************************)
(* get_postings. An item refers to its entry by the position of the entry  *)
(* in the entries es that were realized; the sort key of an item is the    *)
(* date of its entry. list.sort is stable.                                 *)
(***************************************************************************)
posting_sortkey(es, item) == es[item.entry].date

\* accumulator.extend(real_child.postings) for the nodes from the k-th on.
RECURSIVE Extend(_, _, _)
Extend(h, nodes, k) ==
    IF k > Len(nodes) THEN <<>>
    ELSE h[nodes[k]].postings \o Extend(h, nodes, k + 1)

\* item inserted in a sorted list behind the items whose key is not greater.
RECURSIVE InsertSorted(_, _, _)
InsertSorted(es, list, item) ==
    IF list = <<>> THEN <<item>>
    ELSE IF posting_sortkey(es, item) < posting_sortkey(es, Head(list))
    THEN <<item>> \o list
    ELSE <<Head(list)>> \o InsertSorted(es, Tail(list), item)

\* list.sort(key=posting_sortkey), on the items from the k-th on.
RECURSIVE SortFrom(_, _, _, _)
SortFrom(es, list, k, done) ==
    IF k > Len(list) THEN done
    ELSE SortFrom(es, list, k + 1, InsertSorted(es, done, list[k]))

\* Mutant: the postings of the descendants are left out.
get_postings_own_only(h, real_account, es) ==
    [heap |-> h, out |-> SortFrom(es, h[real_account].postings, 1, <<>>)]

\* The list get_postings returns, and the heap as the call leaves it.
get_postings(h, real_account, es) ==
    LET accumulator == Extend(h, iter_children(h, real_account, FALSE), 1)
    IN  [heap |-> h, out |-> SortFrom(es, accumulator, 1, <<>>)]

(***************************************************************************)
(* compute_postings_balance                                                *)
(***************************************************************************)
RECURSIVE BalanceFrom(_, _, _)
BalanceFrom(balance, postings, k) ==
    IF k > Len(postings) THEN balance
    ELSE LET posting == postings[k]
         IN  BalanceFrom(IF isinstance(posting.val, {"Posting"})
                         THEN add_position(balance, posting.val.position, TRUE)
                         ELSE balance,
                         postings, k + 1)

\* Mutant: the positions are added with allow_negative = False.
RECURSIVE BalanceFromStrict(_, _, _)
BalanceFromStrict(balance, postings, k) ==
    IF k > Len(postings) THEN balance
    ELSE LET posting == postings[k]
         IN  BalanceFromStrict(IF isinstance(posting.val, {"Posting"})
                               THEN add_position(balance, posting.val.position, FALSE)
                               ELSE balance,
                               postings, k + 1)

compute_postings_balance_strict(postings) == BalanceFromStrict(Inventory, postings, 1)

compute_postings_balance(postings) == BalanceFrom(Inventory, postings, 1)

(***************************************************************************)
(* realize, one loop iteration per step. The entries are read from the     *)
(* input stream as the grouping loop consumes them; dict and set iteration *)
(* take the keys in any order.                                             *)
(***************************************************************************)
Init ==
    /\ entries = <<>>
    /\ postings_map = <<>>
    /\ min_accounts = {}
    /\ pc = "group"
    /\ todo = {}
    /\ min_todo = {}
    /\ heap = <<>>
    /\ real_root = None
    /\ calls = <<>>
    /\ last = [fn |-> "none"]
    /\ frame = [fn |-> "none"]

\* for entry in entries: one iteration of group_by_account.
GroupStep ==
    /\ pc = "group"
    /\ \E entry \in Entry \cup {ScenarioEntries[k] : k \in 1..Len(ScenarioEntries)} :
          /\ IsInput(Append(entries, entry))
          /\ entries' = Append(entries, entry)
          /\ postings_map' = GroupEntry(postings_map, entry, Len(entries) + 1)
    /\ UNCHANGED <<frame, min_accounts, pc, todo, min_todo, heap, real_root, calls, last>>

\* group_by_account returns; real_root = RealAccount('').
CreateRoot ==
    /\ pc = "group"
    /\ heap' = <<RealAccount(<<>>)>>
    /\ real_root' = 1
    /\ todo' = DOMAIN postings_map
    /\ pc' = "realize"
    /\ UNCHANGED <<frame, entries, postings_map, min_accounts, min_todo, calls, last>>

\* Mutant: the balance is not assigned.
RealizeAccountNoBalance(h, root, account_name, postings) ==
    LET r == get_or_create(h, root, account_name)
    IN  IF r.raised # "none" THEN r
        ELSE Returned([r.heap EXCEPT ![r.node].postings = postings], r.node)

\* Mutant: the postings and the balance are assigned to the parent account too.
RealizeAccountWithParent(h, root, account_name, postings) ==
    LET r == get_or_create(h, root, account_name)
        components == split(account_name)
        parent == IF Len(components) > 1
                  THEN get(r.heap, root, join(SubSeq(components, 1, Len(components) - 1)), None)
                  ELSE r.node
    IN  IF r.raised # "none" THEN r
        ELSE Returned([n \in DOMAIN r.heap |->
                          IF n \in {r.node, parent}
                          THEN [r.heap[n] EXCEPT
                                   !.postings = postings,
                                   !.balance = compute_postings_balance(postings)]
                          ELSE r.heap[n]],
                      r.node)

\* The body of `for account_name, postings in postings_map.items()`.
RealizeAccount(h, root, account_name, postings) ==
    LET r == get_or_create(h, root, account_name)
    IN  IF r.raised # "none" THEN r
        ELSE Returned([r.heap EXCEPT ![r.node].postings = postings,
                                     ![r.node].balance = compute_postings_balance(postings)],
                      r.node)

RealizeStep ==
    /\ pc = "realize"
    /\ \E account_name \in todo :
          LET r == RealizeAccount(heap, real_root, account_name, postings_map[account_name])
          IN  /\ heap' = r.heap
              /\ todo' = todo \ {account_name}
              /\ pc' = IF r.raised # "none" THEN "raised" ELSE pc
    /\ UNCHANGED <<frame, entries, postings_map, min_accounts, min_todo, real_root, calls, last>>

\* Mutant: the loop over min_accounts is never entered.
MinAccountsSkipped(m) == {}

\* `if min_accounts:` the names the loop below goes through (None and the
\* empty set are both skipped).
MinAccountsToEnsure(m) == IF m # {} THEN m ELSE {}

MinAccounts ==
    /\ pc = "realize"
    /\ todo = {}
    /\ \E m \in MinAccountSets :
          /\ min_accounts' = m
          /\ min_todo' = MinAccountsToEnsure(m)
    /\ pc' = "min"
    /\ UNCHANGED <<frame, entries, postings_map, todo, heap, real_root, calls, last>>

\* The body of `for account_name in min_accounts`.
MinAccountStep ==
    /\ pc = "min"
    /\ \E account_name \in min_todo :
          LET r == get_or_create(heap, real_root, account_name)
          IN  /\ heap' = r.heap
              /\ min_todo' = min_todo \ {account_name}
              /\ pc' = IF r.raised # "none" THEN "raised" ELSE pc
    /\ UNCHANGED <<frame, entries, postings_map, min_accounts, todo, real_root, calls, last>>

\* return real_root
Return ==
    /\ pc = "min"
    /\ min_todo = {}
    /\ pc' = "done"
    /\ UNCHANGED <<frame, entries, postings_map, min_accounts, todo, min_todo, heap, real_root, calls, last>>

(***************************************************************************)
(* realize as one call: the steps above run from the first to the last on  *)
(* the entries es and the min_accounts m, the nodes being created in the   *)
(* heap h. The order of postings_map.items() is the order of a dict; it    *)
(* decides nothing but the order in which the nodes are created.           *)
(***************************************************************************)
RECURSIVE RealizeAccounts(_, _, _, _)
RealizeAccounts(h, root, map, names) ==
    IF names = {} THEN Returned(h, root)
    ELSE LET account_name == CHOOSE a \in names : TRUE
             r == RealizeAccount(h, root, account_name, map[account_name])
         IN  IF r.raised # "none" THEN r
             ELSE RealizeAccounts(r.heap, root, map, names \ {account_name})

RECURSIVE EnsureAccounts(_, _, _)
EnsureAccounts(h, root, names) ==
    IF names = {} THEN Returned(h, root)
    ELSE LET account_name == CHOOSE a \in names : TRUE
             r == get_or_create(h, root, account_name)
         IN  IF r.raised # "none" THEN r
             ELSE EnsureAccounts(r.heap, root, names \ {account_name})

\* Mutant: the root of an earlier call is used again.
realize_root_reused(h, es, m) ==
    LET map == group_by_account(es)
        created == IF h = <<>> THEN Append(h, RealAccount(<<>>)) ELSE h
        root == IF h = <<>> THEN Len(created) ELSE 1
        realized == RealizeAccounts(created, root, map, DOMAIN map)
    IN  IF realized.raised # "none" THEN realized
        ELSE EnsureAccounts(realized.heap, root, MinAccountsToEnsure(m))

realize(h, es, m) ==
    LET map == group_by_account(es)
        created == Append(h, RealAccount(<<>>))
        root == Len(created)
        realized == RealizeAccounts(created, root, map, DOMAIN map)
    IN  IF realized.raised # "none" THEN realized
        ELSE EnsureAccounts(realized.heap, root, MinAccountsToEnsure(m))

Next ==
    \/ GroupStep
    \/ CreateRoot
    \/ RealizeStep
    \/ MinAccounts
    \/ MinAccountStep
    \/ Return

Spec == Init /\ [][Next]_vars

(***************************************************************************)
(* The tree operations, called one after the other on a tree that starts   *)
(* as a bare root; `calls` records every call with what it returned.       *)
(***************************************************************************)
\* The names passed to the tree operations: well-formed ones, and names with
\* an empty component.
CallNames ==
    { Assets, AssetsChecking, ExpensesFood,
      <<"Assets", ":", "Checking", ":", "Sub">>,
      <<>>, <<":", "Assets">>, <<"Assets", ":">>,
      <<"Expenses", ":", ":", "Food">> }

InitTree ==
    /\ entries = <<>>
    /\ postings_map = <<>>
    /\ min_accounts = {}
    /\ pc = "tree"
    /\ todo = {}
    /\ min_todo = {}
    /\ heap = <<RealAccount(<<>>)>>
    /\ real_root = 1
    /\ calls = <<>>
    /\ last = [fn |-> "none"]
    /\ frame = [fn |-> "none"]

Call(fn, account_name, r) ==
    [fn |-> fn, name |-> account_name, node |-> r.node, raised |-> r.raised]

GetOrCreateCall ==
    /\ pc = "tree"
    /\ Len(calls) < MaxCalls
    /\ \E account_name \in CallNames :
          LET r == get_or_create(heap, real_root, account_name)
          IN  /\ heap' = r.heap
              /\ calls' = Append(calls, Call("get_or_create", account_name, r))
              /\ last' = Call("get_or_create", account_name, r)
    /\ UNCHANGED <<frame, entries, postings_map, min_accounts, pc, todo, min_todo, real_root>>

\* The default a caller of get passes: None, or a value that is no node.
NoNode == -1

Defaults == {None, NoNode}

\* The names given to get and contains: those of get_or_create, a name
\* relative to a node below the root, and a name that is not a str.
QueryNames == CallNames \cup {<<"Checking">>, <<"Checking", ":", "Sub">>, NotStr}

\* The nodes a caller holds: the root and the nodes get_or_create returned.
HeldNodes ==
    {real_root} \cup ({calls[i].node : i \in DOMAIN calls} \ {None})

\* The tree is as the last get_or_create left it, or as it was made: a
\* query is made of each such tree, not of the tree after another query.
Updated == last.fn \in {"none", "get_or_create"}

\* get(real_account, account_name, default).
GetCall ==
    /\ pc = "tree"
    /\ Updated
    /\ \E real_account \in HeldNodes, account_name \in QueryNames, default \in Defaults :
           LET r == get_call(heap, real_account, account_name, default)
           IN  /\ heap' = r.heap
               /\ last' = [fn |-> "get", real_account |-> real_account,
                           name |-> account_name, default |-> default,
                           node |-> r.node, raised |-> r.raised]
    /\ UNCHANGED <<frame, entries, postings_map, min_accounts, pc, todo, min_todo, real_root,
                   calls>>

\* contains(real_account, account_name).
ContainsCall ==
    /\ pc = "tree"
    /\ Updated
    /\ \E real_account \in HeldNodes, account_name \in QueryNames :
           LET r == contains_call(heap, real_account, account_name)
           IN  /\ heap' = r.heap
               /\ last' = [fn |-> "contains", real_account |-> real_account,
                           name |-> account_name,
                           out |-> r.node, raised |-> r.raised]
    /\ UNCHANGED <<frame, entries, postings_map, min_accounts, pc, todo, min_todo, real_root,
                   calls>>

NextTree ==
    \/ GetOrCreateCall
    \/ GetCall
    \/ ContainsCall

SpecTree == InitTree /\ [][NextTree]_vars

(***************************************************************************)
(* The item assignment real_account[key] = value, made by a caller on a    *)
(* tree that get_or_create built. The value is a RealAccount the caller    *)
(* has just constructed, or an object that is no RealAccount. The model    *)
(* follows a tree up to its first item assignment.                         *)
(***************************************************************************)
SetKeys ==
    { <<>>, NotStr, <<"Checking">>, <<"Food">>, <<"Assets", ":", "Checking">> }

ValueNames == { AssetsChecking, ExpensesFood, <<"Checking">> }

\* The heap after RealAccount(account_name) is constructed and assigned, and
\* the outcome; a RealAccount that was refused is referred to by nothing.
SetItemNew(h, real_account, key, account_name) ==
    LET created == Append(h, RealAccount(account_name))
        set == __setitem__(created, real_account, key, Len(created))
    IN  IF set.raised # "none"
        THEN [set EXCEPT !.heap = SubSeq(set.heap, 1, Len(h))]
        ELSE set

SetItemCall ==
    /\ pc = "tree"
    /\ \E real_account \in HeldNodes, key \in SetKeys :
          \/ \E account_name \in ValueNames :
                LET r == SetItemNew(heap, real_account, key, account_name)
                IN  /\ heap' = r.heap
                    /\ last' = [fn |-> "__setitem__", real_account |-> real_account,
                                key |-> key, is_real |-> TRUE,
                                value |-> account_name,
                                node |-> r.node, raised |-> r.raised]
          \/ LET r == __setitem__(heap, real_account, key, None)
             IN  /\ heap' = r.heap
                 /\ last' = [fn |-> "__setitem__", real_account |-> real_account,
                             key |-> key, is_real |-> FALSE, value |-> <<>>,
                             node |-> r.node, raised |-> r.raised]
    /\ pc' = "assigned"
    /\ UNCHANGED <<frame, entries, postings_map, min_accounts, todo, min_todo, real_root, calls>>

NextInsert ==
    \/ GetOrCreateCall
    \/ SetItemCall

SpecInsert == InitTree /\ [][NextInsert]_vars

(***************************************************************************)
(* iter_children, run to its end, on a tree that get_or_create built.      *)
(***************************************************************************)
IterChildrenCall ==
    /\ pc = "tree"
    /\ Updated
    /\ \E real_account \in HeldNodes, leaf_only \in BOOLEAN :
          last' = [fn |-> "iter_children", real_account |-> real_account,
                   leaf_only |-> leaf_only,
                   out |-> iter_children(heap, real_account, leaf_only)]
    /\ UNCHANGED <<frame, entries, postings_map, min_accounts, pc, todo, min_todo, heap,
                   real_root, calls>>

NextIter ==
    \/ GetOrCreateCall
    \/ IterChildrenCall

SpecIter == InitTree /\ [][NextIter]_vars

(***************************************************************************)
(* filter, on a tree that get_or_create built. The model follows a tree up *)
(* to its first filter.                                                    *)
(***************************************************************************)
Predicates ==
    { {}, {<<>>}, {Assets}, {AssetsChecking}, {<<"Expenses">>},
      {Assets, ExpensesFood} }

FilterCall ==
    /\ pc = "tree"
    /\ \E real_account \in HeldNodes, predicate \in Predicates :
          LET r == filter(heap, real_account, predicate)
          IN  /\ heap' = r.heap
              /\ last' = [fn |-> "filter", real_account |-> real_account,
                          predicate |-> predicate,
                          node |-> r.node, raised |-> r.raised]
    /\ pc' = "filtered"
    /\ UNCHANGED <<frame, entries, postings_map, min_accounts, todo, min_todo, real_root, calls>>

NextFilter ==
    \/ GetOrCreateCall
    \/ FilterCall

SpecFilter == InitTree /\ [][NextFilter]_vars

(***************************************************************************)
(* iterate_with_balance, consumed to its end or to its failure. The input  *)
(* is a list of postings of the transactions and of directives of the      *)
(* journal, in any order; a posting is in the list once.                   *)
(***************************************************************************)
MaxItems == 4

IterateInputs ==
    UNION { IF isinstance(Journal[e], {"Transaction"})
            THEN { Item(e, j, Journal[e].postings[j]) : j \in DOMAIN Journal[e].postings }
            ELSE { Item(e, 0, Journal[e]) }
            : e \in DOMAIN Journal }

InitIterate ==
    /\ entries = <<>>
    /\ postings_map = <<>>
    /\ min_accounts = {}
    /\ pc = "iterate"
    /\ todo = {}
    /\ min_todo = {}
    /\ heap = <<>>
    /\ real_root = None
    /\ calls = <<>>
    /\ last = [fn |-> "none"]
    /\ frame = StartFrame

\* for posting_or_entry in postings_or_entries: the next item is read.
IterateStep ==
    /\ pc = "iterate"
    /\ Len(frame.postings_or_entries) < MaxItems
    /\ \E item \in IterateInputs :
          /\ item.leg > 0 =>
                \A k \in DOMAIN frame.postings_or_entries :
                    frame.postings_or_entries[k] # item
          /\ frame' = IterateItem(frame, item)
    /\ pc' = IF frame'.raised # "none" THEN "raised" ELSE pc
    /\ UNCHANGED <<entries, postings_map, min_accounts, todo, min_todo, heap, real_root,
                   calls, last>>

\* The end of the input: the final flush, and the generator is exhausted.
IterateEnd ==
    /\ pc = "iterate"
    /\ frame' = Flush(frame)
    /\ pc' = "exhausted"
    /\ UNCHANGED <<entries, postings_map, min_accounts, todo, min_todo, heap, real_root,
                   calls, last>>

NextIterate ==
    \/ IterateStep
    \/ IterateEnd

SpecIterate == InitIterate /\ [][NextIterate]_vars

(***************************************************************************)
(* Calls of realize on dated entries, one after the other in one heap,     *)
(* then get_postings on a node of one of the trees, or a change a caller   *)
(* makes to one of the trees: an account added, or an item appended to the *)
(* postings list and a position added to the balance of a node. A change   *)
(* of a list or of an inventory shows in every node that refers to it. The *)
(* model follows the trees up to the first change.                         *)
(***************************************************************************)
MaxRealize == 2

\* The nodes of the tree under the node n, n included.
RECURSIVE Subtree(_, _)
Subtree(h, n) ==
    {n} \cup UNION { Subtree(h, h[n].children[k]) : k \in DOMAIN h[n].children }

LedgerA ==
    Dated(Transaction(<< Posting(Assets, Position("USD", 0 - 100)),
                         Posting(AssetsChecking, Position("USD", 100)) >>), 2)

LedgerB == Dated(Transaction(<< Posting(AssetsChecking, Position("CAD", 100)) >>), 1)

LedgerC == Dated(Directive("Open", AssetsChecking), 1)

LedgerD == Dated(Pad(AssetsChecking, ExpensesFood), 2)

LedgerE == Dated(Directive("Balance", Assets), 3)

Ledgers ==
    { <<>>, <<LedgerA>>, <<LedgerB, LedgerA>>, <<LedgerC, LedgerA>>,
      <<LedgerC, LedgerB, LedgerD>>, <<LedgerB, LedgerA, LedgerE>>,
      <<LedgerD, LedgerA, LedgerE>> }

\* The arguments of the calls: a ledger, and for one of them min_accounts.
RealizeInputs ==
    { [entries |-> es, min_accounts |-> {}] : es \in Ledgers }
    \cup { [entries |-> <<LedgerB, LedgerA>>, min_accounts |-> {IncomeSalary}] }

InitRealize ==
    /\ entries = <<>>
    /\ postings_map = <<>>
    /\ min_accounts = {}
    /\ pc = "calls"
    /\ todo = {}
    /\ min_todo = {}
    /\ heap = <<>>
    /\ real_root = None
    /\ calls = <<>>
    /\ last = [fn |-> "none"]
    /\ frame = [fn |-> "none"]

\* real_root = realize(entries, min_accounts)
RealizeCall ==
    /\ pc = "calls"
    /\ Len(calls) < MaxRealize
    /\ \E input \in RealizeInputs :
          LET r == realize(heap, input.entries, input.min_accounts)
              call == [fn |-> "realize", entries |-> input.entries,
                       min_accounts |-> input.min_accounts,
                       node |-> r.node, raised |-> r.raised]
          IN  /\ heap' = r.heap
              /\ calls' = Append(calls, call)
              /\ last' = call
    /\ UNCHANGED <<entries, postings_map, min_accounts, pc, todo, min_todo, real_root,
                   frame>>

\* get_postings(real_account), on a node of a tree realize returned.
GetPostingsCall ==
    /\ pc = "calls"
    /\ last.fn = "realize"
    /\ \E i \in DOMAIN calls :
          \E real_account \in Subtree(heap, calls[i].node) :
             LET r == get_postings(heap, real_account, calls[i].entries)
             IN  /\ heap' = r.heap
                 /\ last' = [fn |-> "get_postings", call |-> i,
                             real_account |-> real_account, out |-> r.out]
    /\ UNCHANGED <<entries, postings_map, min_accounts, pc, todo, min_todo, real_root,
                   calls, frame>>

\* real_account.postings.append(item); real_account.balance.add_position(...)
ChangeObjects(h, real_account, item, position) ==
    [n \in DOMAIN h |->
        [h[n] EXCEPT
            !.postings = IF postings_id(h, n) = postings_id(h, real_account)
                         THEN Append(@, item) ELSE @,
            !.balance = IF balance_id(h, n) = balance_id(h, real_account)
                        THEN add_position(@, position, TRUE) ELSE @]]

ChangeCall ==
    /\ pc = "calls"
    /\ \E i \in DOMAIN calls :
          \/ LET r == get_or_create(heap, calls[i].node, ExpensesFood)
             IN  /\ heap' = r.heap
                 /\ last' = [fn |-> "change", call |-> i, node |-> r.node]
          \/ \E real_account \in Subtree(heap, calls[i].node) :
                /\ heap' = ChangeObjects(heap, real_account,
                                         Item(0, 0, Directive("Note", Assets)),
                                         Position("CAD", 1))
                /\ last' = [fn |-> "change", call |-> i, node |-> real_account]
    /\ pc' = "changed"
    /\ UNCHANGED <<entries, postings_map, min_accounts, todo, min_todo, real_root,
                   calls, frame>>

NextRealize ==
    \/ RealizeCall
    \/ GetPostingsCall
    \/ ChangeCall

SpecRealize == InitRealize /\ [][NextRealize]_vars

(***************************************************************************)
(* Definitions used to state the properties.                               *)
(***************************************************************************)
\* The places (key, position) of the grouped lists that hold the object
\* identified by (entry, leg).
Occurrences(entry, leg) ==
    UNION { { <<a, p>> : p \in { q \in 1..Len(postings_map[a]) :
                                   /\ postings_map[a][q].entry = entry
                                   /\ postings_map[a][q].leg = leg } }
            : a \in DOMAIN postings_map }

OccursIn(entry, leg, account) ==
    /\ account \in DOMAIN postings_map
    /\ \E p \in 1..Len(postings_map[account]) :
          /\ postings_map[account][p].entry = entry
          /\ postings_map[account][p].leg = leg

TotalItems(map) == Cardinality(UNION { {<<a, p>> : p \in 1..Len(map[a])} : a \in DOMAIN map })

\* The quantity of `lot` summed over the Posting items of a list.
RECURSIVE LotTotal(_, _)
LotTotal(list, lot) ==
    IF list = <<>> THEN 0
    ELSE (IF Head(list).val.kind = "Posting" /\ Head(list).val.position.lot = lot
          THEN Head(list).val.position.number ELSE 0) + LotTotal(Tail(list), lot)

PostingsTotal(list) == [lot \in Lots |-> LotTotal(list, lot)]

\* The node reached from the root by following the components of a name.
NodeAt(account_name) == get(heap, real_root, account_name, None)

ProperPrefixes(account_name) ==
    LET components == split(account_name)
    IN  { join(SubSeq(components, 1, k)) : k \in 1..(Len(components) - 1) }

Last(s) == s[Len(s)]

(***************************************************************************)
(* C1: after realize, every account with a non-empty grouped list has a    *)
(* node at its path whose postings list is that grouped list and whose     *)
(* balance is the sum of the positions of the Posting items of that list   *)
(* alone (negative totals included, other directives and descendants'      *)
(* postings not counted).                                                  *)
(***************************************************************************)
C1_RealizeOwnPostingsAndBalance ==
    pc = "done" =>
        \A name \in DOMAIN postings_map :
            postings_map[name] # <<>> =>
                /\ NodeAt(name) # None
                /\ heap[NodeAt(name)].postings = postings_map[name]
                /\ heap[NodeAt(name)].balance = PostingsTotal(postings_map[name])

C1_Witness ==
    /\ pc = "done"
    /\ Assets \in DOMAIN postings_map
    /\ AssetsChecking \in DOMAIN postings_map
    /\ heap[NodeAt(Assets)].balance["USD"] < 0
    /\ heap[NodeAt(AssetsChecking)].balance["USD"] > 0
    /\ \E p \in 1..Len(postings_map[AssetsChecking]) :
          postings_map[AssetsChecking][p].val.kind # "Posting"

(***************************************************************************)
(* C2 (as stated): for the scenario stream, realize gives a root with      *)
(* child Assets holding Checking (balance -100 USD) and child Expenses     *)
(* holding Food (balance 100 USD), and the Assets:Checking node's postings *)
(* list has length 1.                                                      *)
(***************************************************************************)
ScenarioTree ==
    /\ DOMAIN heap[real_root].children = {<<"Assets">>, <<"Expenses">>}
    /\ DOMAIN heap[NodeAt(<<"Assets">>)].children = {<<"Checking">>}
    /\ DOMAIN heap[NodeAt(<<"Expenses">>)].children = {<<"Food">>}
    /\ heap[NodeAt(AssetsChecking)].children = <<>>
    /\ heap[NodeAt(ExpensesFood)].children = <<>>
    /\ heap[NodeAt(AssetsChecking)].balance = [Inventory EXCEPT !["USD"] = 0 - 100]
    /\ heap[NodeAt(ExpensesFood)].balance = [Inventory EXCEPT !["USD"] = 100]

ScenarioRealized == pc = "done" /\ entries = ScenarioEntries /\ min_accounts = {}

C2_ScenarioAsStated ==
    ScenarioRealized =>
        /\ ScenarioTree
        /\ Len(heap[NodeAt(AssetsChecking)].postings) = 1

(***************************************************************************)
(* C2 (amended): for the scenario stream the tree is as stated, and the    *)
(* Assets:Checking node's postings list has length 2: the Open directive   *)
(* followed by the one posting of the transaction.                         *)
(***************************************************************************)
C2_ScenarioAmended ==
    ScenarioRealized =>
        /\ ScenarioTree
        /\ Len(heap[NodeAt(AssetsChecking)].postings) = 2
        /\ heap[NodeAt(AssetsChecking)].postings[1].val.kind = "Open"
        /\ heap[NodeAt(AssetsChecking)].postings[2].val.kind = "Posting"

C2_Witness == ScenarioRealized /\ Len(heap) = 5

(***************************************************************************)
(* C3: after realize, every name of min_accounts has a node at its path;   *)
(* one without grouped postings has an empty postings list and an empty    *)
(* balance, one with grouped postings keeps the postings and the balance   *)
(* assigned from the entries.                                              *)
(***************************************************************************)
C3_MinAccountsExist ==
    pc = "done" =>
        \A name \in min_accounts :
            /\ NodeAt(name) # None
            /\ name \notin DOMAIN postings_map =>
                  /\ heap[NodeAt(name)].postings = <<>>
                  /\ heap[NodeAt(name)].balance = [lot \in Lots |-> 0]
            /\ name \in DOMAIN postings_map =>
                  /\ heap[NodeAt(name)].postings = postings_map[name]
                  /\ heap[NodeAt(name)].balance = PostingsTotal(postings_map[name])

C3_Witness ==
    /\ pc = "done"
    /\ min_accounts = {Assets, IncomeSalary}
    /\ Assets \in DOMAIN postings_map
    /\ heap[NodeAt(Assets)].postings # <<>>
    /\ IncomeSalary \notin DOMAIN postings_map
    /\ NodeAt(IncomeSalary) # None

(***************************************************************************)
(* C4: realize creates no other accounts: every non-root node is the node  *)
(* of a grouped account or of a min_accounts name, or an ancestor of one;  *)
(* a node that is only an ancestor has an empty postings list and balance. *)
(***************************************************************************)
NamedAccounts == DOMAIN postings_map \cup min_accounts

C4_NoOtherAccounts ==
    pc = "done" =>
        /\ Subtree(heap, real_root) = DOMAIN heap
        /\ \A n \in Subtree(heap, real_root) \ {real_root} :
              /\ n = NodeAt(heap[n].account)
              /\ \/ heap[n].account \in NamedAccounts
                 \/ /\ \E name \in NamedAccounts : heap[n].account \in ProperPrefixes(name)
                    /\ heap[n].postings = <<>>
                    /\ heap[n].balance = [lot \in Lots |-> 0]

C4_Witness ==
    /\ pc = "done"
    /\ AssetsChecking \in DOMAIN postings_map
    /\ Assets \notin NamedAccounts
    /\ IncomeSalary \in min_accounts
    /\ NodeAt(Assets) # None
    /\ NodeAt(<<"Income">>) # None

(***************************************************************************)
(* C5: every posting of every Transaction read so far is in the list of    *)
(* its own account, once, and in no other list; the Transaction itself is  *)
(* in no list.                                                             *)
(***************************************************************************)
C5_TransactionPostingsGrouped ==
    \A i \in 1..Len(entries) :
        entries[i].kind = "Transaction" =>
            /\ Occurrences(i, 0) = {}
            /\ \A leg \in 1..Len(entries[i].postings) :
                  /\ Cardinality(Occurrences(i, leg)) = 1
                  /\ \A o \in Occurrences(i, leg) :
                        /\ o[1] = entries[i].postings[leg].account
                        /\ postings_map[o[1]][o[2]].val = entries[i].postings[leg]

C5_Witness ==
    \E i \in 1..Len(entries) :
        /\ entries[i].kind = "Transaction"
        /\ Len(entries[i].postings) = 2
        /\ entries[i].postings[1].account # entries[i].postings[2].account
        /\ OccursIn(i, 1, entries[i].postings[1].account)
        /\ OccursIn(i, 2, entries[i].postings[2].account)

(***************************************************************************)
(* C6: every Pad read so far was inserted exactly twice in total, and is   *)
(* in the list of its account and in the list of its account_pad.          *)
(***************************************************************************)
C6_PadInBothAccounts ==
    \A i \in 1..Len(entries) :
        entries[i].kind = "Pad" =>
            /\ Cardinality(Occurrences(i, 0)) = 2
            /\ OccursIn(i, 0, entries[i].account)
            /\ OccursIn(i, 0, entries[i].account_pad)
            /\ \A o \in Occurrences(i, 0) : postings_map[o[1]][o[2]].val = entries[i]

C6_Witness ==
    /\ Len(entries) = 1
    /\ entries[1] = Pad(AssetsChecking, ExpensesFood)
    /\ TotalItems(postings_map) = 2
    /\ DOMAIN postings_map = {AssetsChecking, ExpensesFood}

(***************************************************************************)
(* C7: every Open, Close, Balance, Note and Document read so far is in the *)
(* list of the account it names, once, and in no other list.               *)
(***************************************************************************)
C7_AccountDirectivesGrouped ==
    \A i \in 1..Len(entries) :
        entries[i].kind \in {"Open", "Close", "Balance", "Note", "Document"} =>
            /\ Cardinality(Occurrences(i, 0)) = 1
            /\ \A o \in Occurrences(i, 0) :
                  /\ o[1] = entries[i].account
                  /\ postings_map[o[1]][o[2]].val = entries[i]

C7_Witness ==
    /\ Len(entries) = 2
    /\ entries[1].kind = "Document"
    /\ entries[2].kind = "Balance"
    /\ entries[1].account = AssetsChecking
    /\ entries[2].account = Assets
    /\ OccursIn(1, 0, entries[1].account)
    /\ OccursIn(2, 0, entries[2].account)

(***************************************************************************)
(* C8: reading a directive of any other kind (Price, Event) leaves the     *)
(* mapping unchanged: no key and no list element is added.                 *)
(***************************************************************************)
C8_OtherDirectivesIgnored ==
    [][(/\ pc = "group"
        /\ Len(entries') = Len(entries) + 1
        /\ Last(entries').kind \notin {"Transaction", "Open", "Close", "Balance",
                                       "Note", "Document", "Pad"})
       => postings_map' = postings_map]_vars

C8_Witness ==
    /\ pc = "group"
    /\ Len(entries) = 2
    /\ entries[2].kind \in {"Price", "Event"}
    /\ DOMAIN postings_map = {AssetsChecking}

(***************************************************************************)
(* C9: in every grouped list the items are in the order of their entries   *)
(* in the input stream, and the postings of one transaction in the order   *)
(* of its legs.                                                            *)
(***************************************************************************)
C9_StableOrder ==
    \A a \in DOMAIN postings_map :
        \A p, q \in 1..Len(postings_map[a]) :
            p < q =>
                /\ postings_map[a][p].entry <= postings_map[a][q].entry
                /\ postings_map[a][p].entry = postings_map[a][q].entry =>
                      postings_map[a][p].leg <= postings_map[a][q].leg
                /\ (/\ postings_map[a][p].entry = postings_map[a][q].entry
                    /\ postings_map[a][p].leg > 0) =>
                      postings_map[a][p].leg < postings_map[a][q].leg

C9_Witness ==
    /\ AssetsChecking \in DOMAIN postings_map
    /\ Len(postings_map[AssetsChecking]) = 3
    /\ postings_map[AssetsChecking][1].entry = 1
    /\ postings_map[AssetsChecking][2].entry = 2
    /\ postings_map[AssetsChecking][2].leg = 1
    /\ postings_map[AssetsChecking][3].entry = 2
    /\ postings_map[AssetsChecking][3].leg = 2

(***************************************************************************)
(* C10: for a well-formed name A, get_or_create returns a node whose       *)
(* account is A, and a call with a name that was passed before returns the *)
(* same node as before and leaves the tree as it is.                       *)
(***************************************************************************)
WellFormed(account_name) ==
    /\ account_name # <<>>
    /\ Head(account_name) # ":"
    /\ Last(account_name) # ":"
    /\ \A k \in 1..(Len(account_name) - 1) :
          ~(account_name[k] = ":" /\ account_name[k + 1] = ":")

C10_GetOrCreateIdempotent ==
    [][(/\ Len(calls') = Len(calls) + 1
        /\ Last(calls').fn = "get_or_create"
        /\ WellFormed(Last(calls').name))
       => /\ Last(calls').raised = "none"
          /\ Last(calls').node \in DOMAIN heap'
          /\ heap'[Last(calls').node].account = Last(calls').name
          /\ \A i \in 1..Len(calls) :
                (calls[i].fn = "get_or_create" /\ calls[i].name = Last(calls').name)
                    => /\ Last(calls').node = calls[i].node
                       /\ heap' = heap]_vars

C10_Witness ==
    /\ Len(calls) = 3
    /\ calls[1].name = AssetsChecking
    /\ calls[2].name = <<"Assets", ":", "Checking", ":", "Sub">>
    /\ calls[3].name = AssetsChecking
    /\ calls[3].node = calls[1].node
    /\ calls[3].node = 3
    /\ Len(heap) = 4

(***************************************************************************)
(* Definitions used to state the properties of get and contains.           *)
(***************************************************************************)
\* A str that is not a well-formed account name: empty, or with an empty
\* segment.
Malformed(account_name) == IsStr(account_name) /\ ~WellFormed(account_name)

\* The node get_or_create returned for a well-formed name.
CreatedNodes ==
    { calls[i].node : i \in { j \in DOMAIN calls :
                                 /\ calls[j].fn = "get_or_create"
                                 /\ WellFormed(calls[j].name)
                                 /\ calls[j].raised = "none" } }

\* The full name of the account at the path account_name below a node.
FullName(h, real_account, account_name) ==
    IF h[real_account].account = <<>> THEN account_name
    ELSE h[real_account].account \o <<sep>> \o account_name

\* The node below real_account that the path account_name leads to, or
\* default when there is none.
Lookup(h, real_account, account_name, default) ==
    LET found == { n \in Subtree(h, real_account) \ {real_account} :
                      h[n].account = FullName(h, real_account, account_name) }
    IN  IF found = {} THEN default ELSE CHOOSE n \in found : TRUE

(***************************************************************************)
(* C11 as stated: get with the empty name, from a node that get_or_create  *)
(* returned for a well-formed name, returns that node.                     *)
(***************************************************************************)
C11_EmptyNameIsSelf ==
    (/\ last.fn = "get"
     /\ last.name = <<>>
     /\ last.real_account \in CreatedNodes)
    => last.node = last.real_account

(***************************************************************************)
(* C11 amended: get with the empty name, from a node that get_or_create    *)
(* returned for a well-formed name, raises nothing and returns the         *)
(* default, never the node: the empty name is one empty component, and no  *)
(* node has a child under the empty key.                                   *)
(***************************************************************************)
C11_EmptyNameIsDefault ==
    (/\ last.fn = "get"
     /\ last.name = <<>>
     /\ last.real_account \in CreatedNodes)
    => /\ last.raised = "none"
       /\ last.node = last.default
       /\ last.node # last.real_account
       /\ <<>> \notin DOMAIN heap[last.real_account].children

C11_Witness ==
    /\ last.fn = "get"
    /\ last.name = <<>>
    /\ last.default = None
    /\ last.node = None
    /\ last.real_account # real_root
    /\ \E i \in DOMAIN calls :
          /\ calls[i].name = AssetsChecking
          /\ calls[i].node = last.real_account

(***************************************************************************)
(* C12: get_or_create with the empty name, or with a name that has an      *)
(* empty segment (a leading, a trailing or a doubled separator), raises    *)
(* the error of the invalid key (KeyError) and returns no node.            *)
(***************************************************************************)
C12_MalformedNameRefused ==
    \A i \in DOMAIN calls :
        (calls[i].fn = "get_or_create" /\ Malformed(calls[i].name))
            => /\ calls[i].raised = "KeyError"
               /\ calls[i].node = None

C12_Witness ==
    /\ Len(calls) = 3
    /\ calls[1].name = <<"Assets", ":">>
    /\ calls[2].name = <<"Expenses", ":", ":", "Food">>
    /\ calls[3].name = <<>>
    /\ \A i \in 1..3 : calls[i].raised = "KeyError" /\ calls[i].node = None

(***************************************************************************)
(* C13 as stated: get and contains with a malformed or empty name raise an *)
(* error; they do not answer the default or "not found".                   *)
(***************************************************************************)
C13_MalformedNameRaises ==
    (last.fn \in {"get", "contains"} /\ Malformed(last.name))
        => last.raised # "none"

(***************************************************************************)
(* C13 amended: get and contains with a malformed or empty name raise      *)
(* nothing: get returns the default and contains returns false.            *)
(***************************************************************************)
C13_MalformedNameNotFound ==
    /\ (last.fn = "get" /\ Malformed(last.name))
          => last.raised = "none" /\ last.node = last.default
    /\ (last.fn = "contains" /\ Malformed(last.name))
          => last.raised = "none" /\ last.out = FALSE

C13_Witness ==
    /\ last.fn = "contains"
    /\ last.real_account = real_root
    /\ last.name = <<"Expenses", ":", ":", "Food">>
    /\ last.out = FALSE
    /\ last.raised = "none"
    /\ \E i \in DOMAIN calls : calls[i].name = ExpensesFood /\ calls[i].raised = "none"

PlainSegment(key) ==
    IsStr(key) /\ key # <<>> /\ \A k \in DOMAIN key : key[k] # sep

\* The value of the assignment is a RealAccount whose name ends with key.
ValueEndsWith(call, key) == call.is_real /\ EndsWith(call.value, key)

(***************************************************************************)
(* C15 as stated: the item assignment fails with a KeyError, and leaves    *)
(* the children of the parent as they were, when the key is empty or not a *)
(* str, when the key is not a plain path segment, when the name of the     *)
(* child does not end with the key, and when the child is no RealAccount.  *)
(***************************************************************************)
C15_AssignmentFailsWithKeyError ==
    [][(/\ last'.fn = "__setitem__"
        /\ \/ ~PlainSegment(last'.key)
           \/ ~ValueEndsWith(last', last'.key))
       => /\ last'.raised = "KeyError"
          /\ heap'[last'.real_account].children = heap[last'.real_account].children]_vars

(***************************************************************************)
(* C15 amended: the item assignment fails and leaves the children of the   *)
(* parent as they were, with a KeyError when the key is empty or not a     *)
(* str, and otherwise with a ValueError when the child is no RealAccount   *)
(* or when the name of the child does not end with the key.                *)
(***************************************************************************)
C15_AssignmentFails ==
    [][last'.fn = "__setitem__"
       => /\ (~IsStr(last'.key) \/ last'.key = <<>>)
                => /\ last'.raised = "KeyError"
                   /\ heap' = heap
          /\ (/\ IsStr(last'.key) /\ last'.key # <<>>
              /\ ~ValueEndsWith(last', last'.key))
                => /\ last'.raised = "ValueError"
                   /\ heap' = heap]_vars

C15_Witness ==
    /\ last.fn = "__setitem__"
    /\ last.real_account # real_root
    /\ heap[last.real_account].account = Assets
    /\ last.key = <<"Food">>
    /\ last.value = AssetsChecking
    /\ last.raised = "ValueError"
    /\ DOMAIN heap[last.real_account].children = {<<"Checking">>}

(***************************************************************************)
(* C16: in every tree that the tree operations produce, the item           *)
(* assignments that succeed included, the name of the root is empty and    *)
(* the name of every other node has as many segments as the node is deep,  *)
(* ends with the key of the node in its parent, and without its last       *)
(* segment is the name of the parent.                                      *)
(***************************************************************************)
RECURSIVE Edges(_, _, _)
Edges(h, n, depth) ==
    UNION { { [parent |-> n, key |-> k, node |-> h[n].children[k], depth |-> depth + 1] }
            \cup Edges(h, h[n].children[k], depth + 1) : k \in DOMAIN h[n].children }

PathInvariant(h, root) ==
    /\ h[root].account = <<>>
    /\ \A e \in Edges(h, root, 0) :
          LET components == split(h[e.node].account)
          IN  /\ Len(components) = e.depth
              /\ Last(components) = e.key
              /\ join(SubSeq(components, 1, Len(components) - 1)) = h[e.parent].account

C16_TreePathInvariant == real_root # None => PathInvariant(heap, real_root)

(***************************************************************************)
(* Definitions used to state the properties of iter_children.              *)
(***************************************************************************)
\* The path p comes before the path q in the depth-first order with the
\* children sorted by key: p is a proper prefix of q, or at the first
\* component where they differ that of p is the lesser str.
PathLess(p, q) ==
    \E k \in 0..Len(p) :
        /\ k <= Len(q)
        /\ SubSeq(p, 1, k) = SubSeq(q, 1, k)
        /\ \/ k = Len(p) /\ k < Len(q)
           \/ k < Len(p) /\ k < Len(q) /\ StrLess(p[k + 1], q[k + 1])

\* out holds each node of the set once and no other, in the order PathLess
\* of the names; there is one such sequence for a set of names.
SortedWalkOf(out, nodes) ==
    /\ { out[i] : i \in DOMAIN out } = nodes
    /\ Len(out) = Cardinality(nodes)
    /\ \A i, j \in DOMAIN out :
          i < j => PathLess(split(heap[out[i]].account), split(heap[out[j]].account))

Childless(n) == DOMAIN heap[n].children = {}

AccountsOf(out) == [i \in DOMAIN out |-> heap[out[i]].account]

(***************************************************************************)
(* C17: iter_children without leaf_only yields the starting node first and *)
(* then every node below it once, a parent before its descendants and the  *)
(* subtrees of the children in the sorted order of their keys; the         *)
(* sequence of names is the one sequence the set of the nodes determines,  *)
(* whatever the order in which the nodes were created.                     *)
(***************************************************************************)
C17_SortedDepthFirst ==
    (last.fn = "iter_children" /\ ~last.leaf_only)
    => /\ last.out[1] = last.real_account
       /\ SortedWalkOf(last.out, Subtree(heap, last.real_account))

C17_Witness ==
    /\ last.fn = "iter_children"
    /\ ~last.leaf_only
    /\ last.real_account = real_root
    /\ Len(calls) = 2
    /\ calls[1].name = ExpensesFood
    /\ calls[2].name = AssetsChecking
    /\ AccountsOf(last.out) =
          << <<>>, Assets, AssetsChecking, <<"Expenses">>, ExpensesFood >>

(***************************************************************************)
(* C18: iter_children with leaf_only yields the nodes at or below the      *)
(* starting node that have no child, each once and in the order of the     *)
(* sorted depth-first walk, and no node that has a child; a starting node  *)
(* without children is itself yielded.                                     *)
(***************************************************************************)
C18_LeafOnly ==
    (last.fn = "iter_children" /\ last.leaf_only)
    => /\ SortedWalkOf(last.out,
                       { n \in Subtree(heap, last.real_account) : Childless(n) })
       /\ Childless(last.real_account) => last.out = <<last.real_account>>

C18_Witness ==
    /\ last.fn = "iter_children"
    /\ last.leaf_only
    /\ last.real_account = real_root
    /\ Len(calls) = 2
    /\ calls[1].name = ExpensesFood
    /\ calls[2].name = <<"Assets", ":", "Checking", ":", "Sub">>
    /\ AccountsOf(last.out) = << <<"Assets", ":", "Checking", ":", "Sub">>, ExpensesFood >>

(***************************************************************************)
(* Definitions used to state the properties of filter.                     *)
(***************************************************************************)
\* The predicate is true of n or of a node below n.
Satisfying(h, n, predicate) ==
    \E d \in Subtree(h, n) : h[d].account \in predicate

\* The node of the tree given to filter that has the name of a copy: the
\* node the copy was made of.
Original(h, real_account, account_name) ==
    CHOOSE n \in Subtree(h, real_account) : h[n].account = account_name

C20_FilterSharesNotMutates ==
    [][(last'.fn = "filter" /\ last.fn # "filter")
       => /\ SubSeq(heap', 1, Len(heap)) = heap
          /\ last'.node # None =>
                \A c \in Subtree(heap', last'.node) :
                    LET o == Original(heap, last'.real_account, heap'[c].account)
                    IN  /\ c \notin DOMAIN heap
                        /\ heap'[c].account = heap[o].account
                        /\ \A k \in DOMAIN heap'[c].children :
                              /\ k \in DOMAIN heap[o].children
                              /\ Original(heap, last'.real_account,
                                          heap'[heap'[c].children[k]].account)
                                    = heap[o].children[k]
                        /\ postings_id(heap', c) = postings_id(heap, o)
                        /\ balance_id(heap', c) = balance_id(heap, o)
                        /\ heap'[c].postings = heap[o].postings
                        /\ heap'[c].balance = heap[o].balance]_vars

C20_Witness ==
    /\ last.fn = "filter"
    /\ last.real_account = real_root
    /\ last.predicate = {Assets, ExpensesFood}
    /\ Len(calls) = 2
    /\ calls[1].name = AssetsChecking
    /\ calls[2].name = ExpensesFood
    /\ Len(heap) = 9
    /\ last.node = 6
    /\ postings_id(heap, 6) = 1
    /\ balance_id(heap, 7) = 2

(***************************************************************************)
(* C30: a call of get_or_create that fails on a malformed name leaves the  *)
(* tree as it was before the call; no node of the valid prefix of the name *)
(* has been added.                                                         *)
(***************************************************************************)
C30_FailedCallLeavesTree ==
    [][(/\ Len(calls') = Len(calls) + 1
        /\ Last(calls').fn = "get_or_create"
        /\ Malformed(Last(calls').name)
        /\ Last(calls').raised # "none")
       => heap' = heap]_vars

(***************************************************************************)
(* Definitions used to state the properties of iterate_with_balance.       *)
(***************************************************************************)
Iterating == frame.fn = "iterate_with_balance"

Exhausted == Iterating /\ pc = "exhausted"

DateOf(item) == Journal[item.entry].date

IsPosting(item) == item.val.kind = "Posting"

\* The positions of the input that hold an item of the entry.
PositionsOf(input, entry) == { k \in DOMAIN input : input[k].entry = entry }

\* The postings of the entry that are in the input, in the order of the input.
RECURSIVE PostingsOf(_, _)
PostingsOf(input, entry) ==
    IF input = <<>> THEN <<>>
    ELSE (IF Head(input).entry = entry /\ IsPosting(Head(input))
          THEN <<Head(input)>> ELSE <<>>) \o PostingsOf(Tail(input), entry)

\* The records yielded for the entry.
RecordsOf(entry) == { i \in DOMAIN frame.yielded : frame.yielded[i].entry = entry }

\* The sum of two inventories.
Plus(a, b) == [lot \in Lots |-> a[lot] + b[lot]]

\* The position of the input where the item of record i was read: the
\* first posting of a transaction, or the occurrence of the directive that
\* the record is the yield of.
RecordPosition(i) ==
    LET input == frame.postings_or_entries
        entry == frame.yielded[i].entry
        nth == Cardinality({ j \in RecordsOf(entry) : j <= i })
    IN  IF isinstance(Journal[entry], {"Transaction"})
        THEN CHOOSE k \in PositionsOf(input, entry) :
                 \A m \in PositionsOf(input, entry) : k <= m
        ELSE CHOOSE k \in PositionsOf(input, entry) :
                 Cardinality({ m \in PositionsOf(input, entry) : m <= k }) = nth

(***************************************************************************)
(* C21: when the iteration over a date-ordered list ends, the balance      *)
(* yielded with the last record is the sum of the positions of all the     *)
(* postings of the list, however they are spread over entries and dates.   *)
(***************************************************************************)
C21_FinalBalanceIsTotal ==
    (Exhausted /\ frame.postings_or_entries # <<>>)
    => /\ frame.yielded # <<>>
       /\ Last(frame.yielded).balance_then = PostingsTotal(frame.postings_or_entries)

C21_Witness ==
    /\ Exhausted
    /\ Len(frame.postings_or_entries) = 4
    /\ \A k \in 1..4 : IsPosting(frame.postings_or_entries[k])
    /\ { frame.postings_or_entries[k].entry : k \in 1..4 } = {1, 3}
    /\ Len(frame.yielded) = 2
    /\ Last(frame.yielded).balance_then = [USD |-> 40, CAD |-> 100]

(***************************************************************************)
(* C22: the iteration fails with the assertion on the order of the dates   *)
(* when the date of an item is earlier than the date of the item before    *)
(* it, and does not fail when the dates never decrease along the input.    *)
(***************************************************************************)
C22_DateOrderAsserted ==
    Iterating =>
        LET input == frame.postings_or_entries
            decreasing == \E k \in 2..Len(input) : DateOf(input[k]) < DateOf(input[k - 1])
        IN  /\ decreasing => pc = "raised" /\ frame.raised = "AssertionError"
            /\ ~decreasing => pc \in {"iterate", "exhausted"} /\ frame.raised = "none"

C22_Witness ==
    /\ Iterating
    /\ pc = "raised"
    /\ Len(frame.postings_or_entries) = 2
    /\ DateOf(frame.postings_or_entries[1]) = 2
    /\ DateOf(frame.postings_or_entries[2]) = 1

(***************************************************************************)
(* C23: when the iteration ends, a transaction with postings in the input  *)
(* has been yielded in one record, whose postings are all of them; a       *)
(* transaction of equal value but another object has its own record; and   *)
(* every directive item has a record of its own with no postings.          *)
(***************************************************************************)
C23_MergedByIdentity ==
    Exhausted =>
        \A e \in DOMAIN Journal :
            LET input == frame.postings_or_entries
            IN  IF isinstance(Journal[e], {"Transaction"})
                THEN /\ Cardinality(RecordsOf(e)) =
                           (IF PositionsOf(input, e) = {} THEN 0 ELSE 1)
                     /\ \A i \in RecordsOf(e) :
                           Len(frame.yielded[i].postings) =
                               Cardinality(PositionsOf(input, e))
                ELSE /\ Cardinality(RecordsOf(e)) = Cardinality(PositionsOf(input, e))
                     /\ \A i \in RecordsOf(e) : frame.yielded[i].postings = <<>>

C23_Witness ==
    /\ Exhausted
    /\ Len(frame.postings_or_entries) = 4
    /\ frame.postings_or_entries[1] = Item(1, 1, Journal[1].postings[1])
    /\ frame.postings_or_entries[2] = Item(2, 1, Journal[2].postings[1])
    /\ frame.postings_or_entries[3] = Item(1, 2, Journal[1].postings[2])
    /\ frame.postings_or_entries[4] = Item(4, 0, Journal[4])
    /\ Len(frame.yielded) = 3
    /\ Len(frame.yielded[1].postings) = 2
    /\ frame.yielded[2].entry = 2

(***************************************************************************)
(* C24: the records are yielded in the order of their dates and, on one    *)
(* date, in the order in which their entries were first read; a record is  *)
(* yielded when the first item of a later date has been read, or at the    *)
(* end of the input, where nothing is left pending.                        *)
(***************************************************************************)
C24_FlushOrder ==
    Iterating =>
        LET input == frame.postings_or_entries
            yielded == frame.yielded
            date(i) == Journal[yielded[i].entry].date
        IN  /\ \A i, j \in DOMAIN yielded :
                  i < j => /\ date(i) <= date(j)
                           /\ date(i) = date(j) => RecordPosition(i) < RecordPosition(j)
            /\ \A i \in DOMAIN yielded :
                  \/ /\ yielded[i].read > RecordPosition(i)
                     /\ DateOf(input[yielded[i].read]) > date(i)
                  \/ /\ Exhausted
                     /\ yielded[i].read = Len(input)
                     /\ DateOf(input[Len(input)]) = date(i)
            /\ Exhausted =>
                  /\ frame.date_entries = <<>>
                  /\ \A k \in DOMAIN input : \E i \in DOMAIN yielded :
                        yielded[i].entry = input[k].entry

C24_Witness ==
    /\ Exhausted
    /\ Len(frame.postings_or_entries) = 4
    /\ frame.postings_or_entries[1] = Item(4, 0, Journal[4])
    /\ frame.postings_or_entries[2] = Item(1, 1, Journal[1].postings[1])
    /\ frame.postings_or_entries[3] = Item(3, 1, Journal[3].postings[1])
    /\ frame.postings_or_entries[4] = Item(5, 0, Journal[5])
    /\ [i \in 1..4 |-> frame.yielded[i].entry] = <<4, 1, 3, 5>>
    /\ [i \in 1..4 |-> frame.yielded[i].read] = <<3, 3, 4, 4>>

(***************************************************************************)
(* C25: with every record, the change is the sum of the positions of the   *)
(* postings of the record, and the balance at the yield is the balance at  *)
(* the yield before (empty before the first) plus the change; a record     *)
(* without postings has an empty change and the balance of the record      *)
(* before; and the balance is an inventory, never None.                    *)
(***************************************************************************)
C25_ChangeAndBalance ==
    Iterating =>
        \A i \in DOMAIN frame.yielded :
            LET record == frame.yielded[i]
                before == IF i = 1 THEN Inventory ELSE frame.yielded[i - 1].balance_then
            IN  /\ record.change_then = PostingsTotal(record.postings)
                /\ record.balance_then = Plus(before, record.change_then)
                /\ record.postings = <<>> =>
                      /\ record.change_then = Inventory
                      /\ record.balance_then = before
                /\ record.balance # None
                /\ record.balance \in DOMAIN frame.store

C25_Witness ==
    /\ Iterating
    /\ Len(frame.yielded) = 2
    /\ frame.yielded[1].change_then = [USD |-> 0 - 60, CAD |-> 0]
    /\ frame.yielded[2].postings = <<>>
    /\ frame.yielded[2].change_then = Inventory
    /\ frame.yielded[2].balance_then = [USD |-> 0 - 60, CAD |-> 0]

(***************************************************************************)
(* C28: the balance yielded with a record is a snapshot: when the          *)
(* iteration has gone on to later records, the balance that was yielded    *)
(* with an earlier record still has the value it had at its yield.         *)
(***************************************************************************)
C28_BalanceIsSnapshot ==
    Iterating =>
        \A i \in DOMAIN frame.yielded :
            frame.store[frame.yielded[i].balance] = frame.yielded[i].balance_then

(***************************************************************************)
(* C29: when the iteration ends, every posting of the input is in the      *)
(* postings of one record, once, and that record is the record of its      *)
(* transaction; the postings of a record are in the order of the input;    *)
(* and a posting that is not in the input is in no record and in no        *)
(* change.                                                                 *)
(***************************************************************************)
C29_PostingsPartitioned ==
    Exhausted =>
        LET input == frame.postings_or_entries
            yielded == frame.yielded
        IN  /\ \A k \in DOMAIN input :
                  IsPosting(input[k]) =>
                      Cardinality({ <<i, p>> \in (DOMAIN yielded) \X (1..MaxItems) :
                                       /\ p \in DOMAIN yielded[i].postings
                                       /\ yielded[i].postings[p] = input[k] }) = 1
            /\ \A i \in DOMAIN yielded :
                  /\ yielded[i].postings = PostingsOf(input, yielded[i].entry)
                  /\ yielded[i].change_then = PostingsTotal(PostingsOf(input, yielded[i].entry))

C29_Witness ==
    /\ Exhausted
    /\ Len(frame.postings_or_entries) = 3
    /\ frame.postings_or_entries[1] = Item(1, 2, Journal[1].postings[2])
    /\ frame.postings_or_entries[2] = Item(1, 1, Journal[1].postings[1])
    /\ frame.postings_or_entries[3] = Item(3, 1, Journal[3].postings[1])
    /\ Len(frame.yielded) = 2
    /\ frame.yielded[1].postings = << Item(1, 2, Journal[1].postings[2]),
                                      Item(1, 1, Journal[1].postings[1]) >>
    /\ frame.yielded[2].change_then = [USD |-> 0, CAD |-> 100]

(***************************************************************************)
(* Properties of get_postings and of two calls of realize.                 *)
(***************************************************************************)
\* The places of the postings lists of the nodes: node and index.
Places(nodes) == UNION { { <<n, k>> : k \in DOMAIN heap[n].postings } : n \in nodes }

ItemAt(place) == heap[place[1]].postings[place[2]]

\* The order of the places in the lists of the sorted depth-first walk, one
\* list after the other.
PlaceLess(a, b) ==
    \/ a[1] = b[1] /\ a[2] < b[2]
    \/ a[1] # b[1] /\ PathLess(split(heap[a[1]].account), split(heap[b[1]].account))

\* out holds the item of each place once, by non-decreasing date, the items
\* of one date in the order of their places.
SortedPlaces(out, nodes, es) ==
    \E f \in [DOMAIN out -> Places(nodes)] :
        /\ \A place \in Places(nodes) : \E i \in DOMAIN out : f[i] = place
        /\ \A i \in DOMAIN out : out[i] = ItemAt(f[i])
        /\ \A i, j \in DOMAIN out :
              i < j => \/ posting_sortkey(es, out[i]) < posting_sortkey(es, out[j])
                       \/ /\ posting_sortkey(es, out[i]) = posting_sortkey(es, out[j])
                          /\ PlaceLess(f[i], f[j])

PostingsReturned ==
    last.fn = "get_postings"
    => LET nodes == Subtree(heap, last.real_account)
           es == calls[last.call].entries
       IN  /\ Len(last.out) = Cardinality(Places(nodes))
           /\ \A i, j \in DOMAIN last.out :
                 i < j => posting_sortkey(es, last.out[i]) <= posting_sortkey(es, last.out[j])
           /\ SortedPlaces(last.out, nodes, es)

(***************************************************************************)
(* C26: get_postings returns the postings of the node and of all the nodes *)
(* below it, each occurrence once and nothing else, ordered by the sort    *)
(* key so that the dates do not decrease and the items of one date keep    *)
(* the order they have in the lists of the depth-first walk; the call      *)
(* changes no node and no postings list of the tree.                       *)
(***************************************************************************)
C26_GetPostingsSortedCopy ==
    [][last'.fn = "get_postings" => (heap' = heap /\ PostingsReturned')]_vars

C26_Witness ==
    /\ last.fn = "get_postings"
    /\ calls[last.call].entries = <<LedgerD, LedgerA, LedgerE>>
    /\ last.real_account = calls[last.call].node
    /\ Len(last.out) = 5
    /\ last.out[1].entry = 2
    /\ last.out[2].entry = 1
    /\ last.out[3].entry = 2
    /\ last.out[4].entry = 1
    /\ last.out[5].val.kind = "Balance"
    /\ \E n \in Subtree(heap, last.real_account) :
          /\ heap[n].account = Assets
          /\ Len(heap[n].postings) = 2
          /\ heap[n].postings[2].val.kind = "Balance"

\* The nodes, the postings lists and the inventories of the tree of a call.
TreeOf(h, call) == Subtree(h, call.node)

ListsOf(h, call) == { postings_id(h, n) : n \in TreeOf(h, call) }

BalancesOf(h, call) == { balance_id(h, n) : n \in TreeOf(h, call) }

Independent(h, cs) ==
    \A i, j \in DOMAIN cs :
        i # j => /\ TreeOf(h, cs[i]) \cap TreeOf(h, cs[j]) = {}
                 /\ ListsOf(h, cs[i]) \cap ListsOf(h, cs[j]) = {}
                 /\ BalancesOf(h, cs[i]) \cap BalancesOf(h, cs[j]) = {}

(***************************************************************************)
(* C27: the trees two calls of realize return have no node, no postings    *)
(* list and no balance in common; a call of realize changes no node of an  *)
(* earlier tree, and an account added to one tree, an item appended to one *)
(* of its lists or a position added to one of its balances changes no node *)
(* of the other tree.                                                      *)
(***************************************************************************)
C27_TreesIndependent ==
    [][/\ Independent(heap', calls')
       /\ last'.fn = "realize" => \A n \in DOMAIN heap : heap'[n] = heap[n]
       /\ last'.fn = "change"
          => \A j \in DOMAIN calls :
                j # last'.call
                => \A n \in TreeOf(heap, calls[j]) :
                      /\ heap'[n] = heap[n]
                      /\ n \in TreeOf(heap', calls[j])]_vars

C27_Witness ==
    /\ pc = "changed"
    /\ Len(calls) = 2
    /\ calls[1].entries = <<LedgerB, LedgerA>>
    /\ calls[2].entries = <<LedgerB, LedgerA>>
    /\ last.call = 1
    /\ heap[last.node].account = AssetsChecking
    /\ Len(heap[last.node].postings) = 3
    /\ heap[last.node].balance["CAD"] = 101
    /\ \E m \in TreeOf(heap, calls[2]) :
          /\ heap[m].account = AssetsChecking
          /\ Len(heap[m].postings) = 2
          /\ heap[m].balance["CAD"] = 100

====
